---- MODULE Spec2Model ----
(***************************************************************************)
(* A model of minorminer's pairing queue (pairing_queue and                *)
(* pairing_queue_fast_reset), of the fastrng generator, and of the Python  *)
(* front end (find_embedding, _input_parser, minorminer.quality_key).      *)
(***************************************************************************)
EXTENDS Integers, Sequences, FiniteSets, TLC

\* ---------------------------------------------------------------- bounds
\* number of nodes of a queue (the n of pairing_queue(int n))
NumKeys == 2
\* numeric_limits<P>::max() of the value type P, scaled down: P is 0 .. max_P
max_P == 2
\* calls other than reset() made on a pairing_queue
MaxCalls == 5
\* calls other than reset() made on a pairing_queue_fast_reset
MaxFastCalls == 4
\* reset() calls made on a queue
MaxResets == 2
\* the largest n find_embeddings is called with
MaxN == 2
\* calls of find_embedding made by one call of find_embeddings
MaxAttempts == 3
\* the longest chain and the most chains of an embedding built from its chain lengths
MaxSize == 2
MaxChains == 3
\* seed() calls made on the two generators together
MaxSeeds == 3
\* operator() and discard() calls made on the two generators together
MaxDraws == 3

VARIABLES
    pq,      \* the pairing_queue: its node arena and root
    inq,     \* the keys set since the last reset() and not yet popped
    pops,    \* <<key, value>> of each key taken out since the last reset(), in order
    started, \* reset() has been called since the construction
    qcall,   \* the last call made on the queue
    qret,    \* what it returned: the result and the caller's key, value arguments
    ncalls,  \* the calls other than reset() made
    nresets, \* the reset() calls made
    fq,      \* the pairing_queue_fast_reset: its node arena, root and now
    fq0,     \* a second pairing_queue_fast_reset, constructed anew at every reset() of fq
    qret0,   \* what the calls returned on the second queue: fq0, or fq next to pq
    touched, \* the keys set since the last reset()
    api,     \* which entry point is called: the function find_embedding or the class minorminer
    S, T,    \* the edge lists passed
    params,  \* the keyword arguments passed, as they were at the call
    caller_fixed, \* the dict the caller passed as fixed_chains, as it is now
    pc,      \* where the call is
    SL, TL,  \* _input_parser.SL, TL: the label tables
    Sg, Tg,  \* _input_parser.Sg, Tg: the edges pushed, as pairs of ids
    checkS, checkT, \* the locals checkS, checkT of _input_parser.__init__
    pincount,       \* the local pincount of _input_parser.__init__
    self_pincount,  \* the attribute _input_parser.pincount
    fixed_chains,   \* the local fixed_chains of _input_parser.__init__
    opts,    \* _input_parser.opts: return_overlap and the three chain maps
    error,   \* the exception raised, or "none"
    invoked, \* findEmbedding or heuristicEmbedding has been called
    chains,  \* the chains the heuristic gave, one per source id
    success, \* what the heuristic returned
    rchain,  \* the mapping returned
    loop,    \* find_embeddings: its n, force and embs, the n it was called with, the calls made
    embs,    \* the embeddings quality_key is called with
    flags,   \* the argument embedded of each call of quality_key made
    keys,    \* what each call of quality_key made returned
    rng,     \* the two fastrng objects: S0 and S1 of each
    rseed,   \* what each generator was last seeded with, or NoSeed
    rpos,    \* the states each generator went through since its last seed
    rhist,   \* <<seed, position, S0 and S1>> of every state reached from a seed
    rout,    \* <<seed, position, result>> of every operator() call made from a seed
    nseeds,  \* the seed() calls made
    ndraws   \* the operator() and discard() calls made

qvars == <<pq, inq, pops, started, qcall, qret, ncalls, nresets>>
fvars == <<fq, fq0, qret0, touched>>
evars == <<loop, api, S, T, params, caller_fixed, pc, SL, TL, Sg, Tg, checkS, checkT, pincount,
           self_pincount, fixed_chains, opts, error, invoked, chains, success, rchain>>
kvars == <<embs, flags, keys>>
rvars == <<rng, rseed, rpos, rhist, rout, nseeds, ndraws>>
vars == <<pq, inq, pops, started, qcall, qret, ncalls, nresets, fq, fq0, qret0, touched,
          api, S, T, params, caller_fixed, pc, SL, TL, Sg, Tg, checkS, checkT, pincount,
          self_pincount, fixed_chains, opts, error, invoked, chains, success, rchain, loop,
          embs, flags, keys, rng, rseed, rpos, rhist, rout, nseeds, ndraws>>

\* F(x), with x worked out once and then used as often as F uses it
With(x, F(_)) == CHOOSE out \in {F(m) : m \in {x}} : TRUE

\* ------------------------------------------------------- pairing_queue
NULL == -1
Keys == 0 .. (NumKeys - 1)
P == 0 .. max_P

\* pairing_queue(int n) : nodes(n), root(nullptr): the nodes are value-initialized
Construct ==
    [val  |-> [k \in Keys |-> 0],
     next |-> [k \in Keys |-> NULL],
     desc |-> [k \in Keys |-> NULL],
     prev |-> [k \in Keys |-> NULL],
     root |-> NULL,
     fault |-> "none"]

\* operator< of plain_node and time_node: by value, then by address
node_less(q, a, b) ==
    (q.val[a] < q.val[b]) \/ ((q.val[a] = q.val[b]) /\ (a < b))

\* reset(N *n)
reset_node(q, n) ==
    [q EXCEPT !.desc[n] = NULL, !.next[n] = NULL, !.prev[n] = n]

\* reset_fill(v): root = nullptr, then reset(&n, v) for every node
reset_fill(q, v) ==
    [q EXCEPT !.root = NULL,
              !.desc = [k \in Keys |-> NULL],
              !.next = [k \in Keys |-> NULL],
              !.prev = [k \in Keys |-> k],
              !.val  = [k \in Keys |-> v]]

\* reset()
reset(q) == reset_fill(q, max_P)

\* empty(N *n)
empty(n) == n = NULL

\* merge_roots_unchecked(a, b): b becomes the first child of a; returns a
merge_roots_unchecked(q, a, b) ==
    LET c  == q.desc[a]
        q1 == [q EXCEPT !.next[b] = c]
        q2 == IF ~empty(c) THEN [q1 EXCEPT !.prev[c] = b] ELSE q1
        q3 == [q2 EXCEPT !.prev[b] = a]
        q4 == [q3 EXCEPT !.desc[a] = b]
    IN  [q |-> q4, r |-> a]

\* merge_roots_unsafe(a, b)
merge_roots_unsafe(q, a, b) ==
    IF node_less(q, a, b)
    THEN merge_roots_unchecked(q, a, b)
    ELSE merge_roots_unchecked(q, b, a)

\* merge_roots(a, b)
merge_roots(q, a, b) ==
    IF empty(b)
    THEN [q |-> q, r |-> a]
    ELSE LET m == merge_roots_unsafe(q, a, b)
         IN  [q |-> [m.q EXCEPT !.prev[m.r] = NULL], r |-> m.r]

\* merge_pairs, second loop: fold the list r, r->prev, ... into a. The loop has no
\* bound of its own: when it comes back to a state it was in (seen), it never ends
RECURSIVE merge_pairs_back(_, _, _, _)
merge_pairs_back(q, a, r, seen) ==
    IF empty(r)
    THEN [q |-> q, r |-> a]
    ELSE IF <<q, a, r>> \in seen
    THEN [q |-> [q EXCEPT !.fault = "hang"], r |-> a]
    ELSE With(<<q.prev[r], merge_roots_unsafe(q, a, r), seen \cup {<<q, a, r>>}>>,
              LAMBDA t : merge_pairs_back(t[2].q, t[2].r, t[1], t[3]))

\* merge_pairs, first loop: merge the siblings two by two, chaining the winners by prev
RECURSIVE merge_pairs_fwd(_, _, _, _)
merge_pairs_fwd(q, a, r, seen) ==
    LET b == q.next[a]
    IN  IF <<q, a, r>> \in seen
        THEN [q |-> [q EXCEPT !.fault = "hang"], r |-> a]
        ELSE IF ~empty(b)
        THEN With(<<q.next[b], merge_roots_unsafe(q, a, b), seen \cup {<<q, a, r>>}>>,
                  LAMBDA t :
                      LET c  == t[1]
                          m  == t[2]
                          q1 == [m.q EXCEPT !.prev[m.r] = r]
                      IN  IF ~empty(c)
                          THEN With(q1, LAMBDA q2 : merge_pairs_fwd(q2, c, m.r, t[3]))
                          ELSE [q |-> q1, r |-> m.r])
        ELSE [q |-> [q EXCEPT !.prev[a] = r], r |-> a]

\* merge_pairs(a)
merge_pairs(q, a) ==
    IF empty(a)
    THEN [q |-> q, r |-> NULL]
    ELSE With(merge_pairs_fwd(q, a, NULL, {}),
              LAMBDA f :
                  IF f.q.fault # "none"
                  THEN f
                  ELSE merge_pairs_back(f.q, f.r, f.q.prev[f.r], {}))

\* remove(a): reading b->desc with b == nullptr is a null dereference
remove(q, a) ==
    LET b == q.prev[a]
        c == q.next[a]
    IN  IF empty(b)
        THEN [q EXCEPT !.fault = "nullptr"]
        ELSE LET q1 == IF q.desc[b] = a
                       THEN [q EXCEPT !.desc[b] = c]
                       ELSE [q EXCEPT !.next[b] = c]
             IN  IF ~empty(c)
                 THEN [q1 EXCEPT !.prev[c] = b, !.next[a] = NULL]
                 ELSE q1

\* root = merge_roots(n, root)
insert_root(q, n) ==
    LET m == merge_roots(q, n, q.root)
    IN  [m.q EXCEPT !.root = m.r]

\* decrease(a)
decrease(q, a) ==
    IF ~empty(q.prev[a])
    THEN LET q1 == remove(q, a)
         IN  IF q1.fault # "none" THEN q1 ELSE insert_root(q1, a)
    ELSE q

\* decrease_value(k, v)
decrease_value(q, k, v) == decrease([q EXCEPT !.val[k] = v], k)

\* check_decrease_value(N *n, v): the queue afterwards and the result
check_decrease_value(q, k, v) ==
    IF v < q.val[k]
    THEN [q |-> decrease([q EXCEPT !.val[k] = v], k), r |-> TRUE]
    ELSE [q |-> q, r |-> FALSE]

\* set_value(N *n, v)
set_value(q, k, v) ==
    IF q.prev[k] = k
    THEN insert_root([q EXCEPT !.val[k] = v], k)
    ELSE IF v < q.val[k]
    THEN decrease([q EXCEPT !.val[k] = v], k)
    ELSE IF q.val[k] < v
    THEN LET q1 == remove([q EXCEPT !.val[k] = v], k)
         IN  IF q1.fault # "none" THEN q1 ELSE insert_root(q1, k)
    ELSE q

\* min_value(), min_key()
min_value(q) == q.val[q.root]
min_key(q) == q.root

\* delete_min(): the queue afterwards and the result
delete_min(q) ==
    IF empty(q.root)
    THEN [q |-> q, r |-> FALSE]
    ELSE LET d == q.desc[q.root]
         IN  With(IF ~empty(d)
                  THEN With(merge_pairs(q, d),
                            LAMBDA p : [q |-> [p.q EXCEPT !.prev[p.r] = NULL, !.next[p.r] = NULL],
                                        r |-> p.r])
                  ELSE [q |-> q, r |-> d],
                  LAMBDA m :
                      IF m.q.fault # "none"
                      THEN [q |-> m.q, r |-> TRUE]
                      ELSE [q |-> [reset_node(m.q, q.root) EXCEPT !.root = m.r], r |-> TRUE])

\* pop_min(key, value): the queue afterwards, the result and the two output arguments
pop_min(q, key, value) ==
    IF empty(q.root)
    THEN [q |-> q, r |-> FALSE, key |-> key, value |-> value]
    ELSE [q |-> delete_min(q).q, r |-> TRUE, key |-> min_key(q), value |-> min_value(q)]

\* ------------------------------------------- pairing_queue_fast_reset
\* the largest and the smallest int: now is an int
INT_MAX == 2147483647
INT_MIN == (0 - INT_MAX) - 1

\* pairing_queue_fast_reset(int n) : super(n), now(0): time_node adds the field time
FastConstruct ==
    [val  |-> [k \in Keys |-> 0],
     next |-> [k \in Keys |-> NULL],
     desc |-> [k \in Keys |-> NULL],
     prev |-> [k \in Keys |-> NULL],
     time |-> [k \in Keys |-> 0],
     root |-> NULL,
     now  |-> 0,
     fault |-> "none"]

\* now++ on an int where the overflow at INT_MAX wraps, as two's complement does
increment(n) == IF n = INT_MAX THEN INT_MIN ELSE n + 1

\* pairing_queue_fast_reset::reset(N *n)
fast_reset_node(q, n) ==
    [reset_node(q, n) EXCEPT !.time[n] = q.now]

\* current(N *n) without its reset(n): the links written before the reset() stay
current_keeps_links(q, n) ==
    IF q.time[n] # q.now
    THEN [q |-> [q EXCEPT !.time[n] = q.now], r |-> FALSE]
    ELSE [q |-> q, r |-> TRUE]

\* current(N *n): the queue afterwards and the result
current(q, n) ==
    IF q.time[n] # q.now
    THEN [q |-> fast_reset_node(q, n), r |-> FALSE]
    ELSE [q |-> q, r |-> TRUE]

\* pairing_queue_fast_reset::reset()
fast_reset(q) ==
    [q EXCEPT !.root = NULL,
              !.now = increment(q.now),
              !.time = IF q.now = 0 THEN [k \in Keys |-> 0] ELSE @]

\* what reset() can leave: the overflow of now++ at INT_MAX is undefined, and a build
\* either wraps or traps (-ftrapv) after root was cleared
fast_reset_outcomes(q) ==
    IF q.now = INT_MAX
    THEN {fast_reset(q), [q EXCEPT !.root = NULL, !.fault = "overflow"]}
    ELSE {fast_reset(q)}

\* pairing_queue_fast_reset::set_value(k, v)
fast_set_value(q, k, v) ==
    LET c == current(q, k)
    IN  IF c.r
        THEN set_value(c.q, k, v)
        ELSE insert_root([c.q EXCEPT !.val[k] = v], k)

\* pairing_queue_fast_reset::check_decrease_value(k, v): the queue afterwards and the result
fast_check_decrease_value(q, k, v) ==
    LET c == current(q, k)
    IN  IF c.r
        THEN check_decrease_value(c.q, k, v)
        ELSE [q |-> set_value(c.q, k, v), r |-> TRUE]

\* get_value(k)
get_value(q, k) == IF q.time[k] = q.now THEN q.val[k] ELSE max_P

\* ------------------------------------------------ minorminer.pyx
Range(s) == {s[i] : i \in DOMAIN s}

\* a dict is the sequence of its <<key, value>> items in insertion order
DictKeys(d) == {d[i][1] : i \in DOMAIN d}
DictGet(d, k) == d[CHOOSE i \in DOMAIN d : d[i][1] = k][2]
DictSet(d, k, v) ==
    IF k \in DictKeys(d)
    THEN [i \in DOMAIN d |-> IF d[i][1] = k THEN <<k, v>> ELSE d[i]]
    ELSE Append(d, <<k, v>>)

\* labeldict: label(k) is the k-th label given an id; ids start at 0
label(L, k) == L[k + 1]
label_id(L, x) == (CHOOSE i \in DOMAIN L : L[i] = x) - 1

\* labeldict L[x]: a label not yet in L is given the next id
labeldict_get(L, x) ==
    IF x \in Range(L)
    THEN [L |-> L, id |-> label_id(L, x)]
    ELSE [L |-> Append(L, x), id |-> Len(L)]

\* the names find_embedding accepts
names ==
    {"max_no_improvement", "random_seed", "timeout", "tries", "verbose",
     "fixed_chains", "initial_chains", "max_fill", "chainlength_patience",
     "return_overlap", "skip_initialization", "inner_rounds", "threads",
     "restrict_chains", "suspend_chains", "max_beta"}

check_names_lenient(p) == "none"

\* for name in params: if name not in names: raise ValueError
check_names(p) ==
    IF \E name \in DOMAIN p : name \notin names
    THEN "ValueError: not a valid parameter"
    ELSE "none"

\* _read_graph(g, E): the label table and the edges pushed
RECURSIVE read_graph(_, _, _)
read_graph(E, L, g) ==
    IF E = <<>>
    THEN [L |-> L, g |-> g]
    ELSE LET a == labeldict_get(L, Head(E)[1])
             b == labeldict_get(a.L, Head(E)[2])
         IN  read_graph(Tail(E), b.L, Append(g, <<a.id, b.id>>))

\* the label of the pin of blob i of suspend_chains[v]
Pin(v, i) == <<"__MINORMINER_INTERNAL_PIN_FOR_SUSPENSION", v, i>>

\* for q in blob: self.Tg.push_back(self.TL[pin], self.TL[q])
RECURSIVE pin_edges(_, _, _)
pin_edges(st, pin, blob) ==
    IF blob = <<>>
    THEN st
    ELSE LET a == labeldict_get(st.TL, pin)
             b == labeldict_get(a.L, Head(blob))
         IN  pin_edges([st EXCEPT !.TL = b.L, !.Tg = Append(@, <<a.id, b.id>>)],
                       pin, Tail(blob))

suspend_blob_one_pin_edge(st, v, i, blob) ==
    LET pin == Pin(v, i)
    IN  IF pin \in Range(st.SL)
        THEN [st EXCEPT !.error = "ValueError: pin label in the source graph"]
        ELSE IF pin \in Range(st.TL)
        THEN [st EXCEPT !.error = "ValueError: pin label in the target graph"]
        ELSE LET s1 == pin_edges(st, pin, IF blob = <<>> THEN blob ELSE <<Head(blob)>>)
             IN  IF blob # <<>>
                 THEN LET a == labeldict_get(s1.SL, v)
                          b == labeldict_get(a.L, pin)
                      IN  [s1 EXCEPT !.pincount = @ + 1,
                                     !.fixed_chains = DictSet(@, pin, <<pin>>),
                                     !.SL = b.L,
                                     !.Sg = Append(@, <<a.id, b.id>>)]
                 ELSE s1

suspend_blob_source_check_only(st, v, i, blob) ==
    LET pin == Pin(v, i)
    IN  IF pin \in Range(st.SL)
        THEN [st EXCEPT !.error = "ValueError: pin label in the source graph"]
        ELSE LET s1 == pin_edges(st, pin, blob)
             IN  IF blob # <<>>
                 THEN LET a == labeldict_get(s1.SL, v)
                          b == labeldict_get(a.L, pin)
                      IN  [s1 EXCEPT !.pincount = @ + 1,
                                     !.fixed_chains = DictSet(@, pin, <<pin>>),
                                     !.SL = b.L,
                                     !.Sg = Append(@, <<a.id, b.id>>)]
                 ELSE s1

\* the body of the loop over the blobs of v, for blob number i
suspend_blob(st, v, i, blob) ==
    LET pin == Pin(v, i)
    IN  IF pin \in Range(st.SL)
        THEN [st EXCEPT !.error = "ValueError: pin label in the source graph"]
        ELSE IF pin \in Range(st.TL)
        THEN [st EXCEPT !.error = "ValueError: pin label in the target graph"]
        ELSE LET s1 == pin_edges(st, pin, blob)
             IN  IF blob # <<>>
                 THEN LET a == labeldict_get(s1.SL, v)
                          b == labeldict_get(a.L, pin)
                      IN  [s1 EXCEPT !.pincount = @ + 1,
                                     !.fixed_chains = DictSet(@, pin, <<pin>>),
                                     !.SL = b.L,
                                     !.Sg = Append(@, <<a.id, b.id>>)]
                 ELSE s1

\* for i, blob in enumerate(blobs)
RECURSIVE suspend_blobs(_, _, _, _)
suspend_blobs(st, v, i, blobs) ==
    IF blobs = <<>> \/ st.error # "none"
    THEN st
    ELSE suspend_blobs(suspend_blob(st, v, i, Head(blobs)), v, i + 1, Tail(blobs))

\* for v, blobs in suspend_chains.items()
RECURSIVE suspend_items(_, _)
suspend_items(st, items) ==
    IF items = <<>> \/ st.error # "none"
    THEN st
    ELSE suspend_items(suspend_blobs(st, Head(items)[1], 0, Head(items)[2]), Tail(items))

chain_ids_unregistered(L, c, acc) ==
    [L |-> L, chain |-> [j \in DOMAIN c |-> IF c[j] \in Range(L) THEN label_id(L, c[j]) ELSE 0]]

\* the chain of labels x as a chain of ids: for x in C[a]: chain.push_back(TL[x])
RECURSIVE chain_ids(_, _, _)
chain_ids(L, c, acc) ==
    IF c = <<>>
    THEN [L |-> L, chain |-> acc]
    ELSE LET a == labeldict_get(L, Head(c))
         IN  chain_ids(a.L, Tail(c), Append(acc, a.id))

\* _get_chainmap(C, CMap, SL, TL): the two label tables and the chain map afterwards
RECURSIVE get_chainmap(_, _, _, _)
get_chainmap(C, cmap, sl, tl) ==
    IF C = <<>>
    THEN [SL |-> sl, TL |-> tl, CMap |-> cmap]
    ELSE LET a == Head(C)[1]
             c == Head(C)[2]
         IN  IF c # <<>>
             THEN LET t == chain_ids(tl, c, <<>>)
                      k == labeldict_get(sl, a)
                  IN  get_chainmap(Tail(C),
                                   IF k.id \in DictKeys(cmap) THEN cmap
                                   ELSE Append(cmap, <<k.id, t.chain>>),
                                   k.L, t.L)
             ELSE get_chainmap(Tail(C), cmap, sl, tl)

\* params.get(name, default)
Param(name, default) == IF name \in DOMAIN params THEN params[name] ELSE default

\* ------------------------------------------- the caller of a pairing_queue
NoCall == [op |-> "none", k |-> NULL, v |-> 0]
Call(op, k, v) == [op |-> op, k |-> k, v |-> v]
NoRet == [r |-> FALSE, key |-> NULL, value |-> 0]

Running(q) == q.fault = "none"

InitQ ==
    /\ pq = Construct
    /\ inq = {}
    /\ pops = <<>>
    /\ started = FALSE
    /\ qcall = NoCall
    /\ qret = NoRet
    /\ ncalls = 0
    /\ nresets = 0

\* ------------------------------------- minorminer.quality_key
\* count_overlaps(chains): o[q] = 1 + o.get(q, -1) for q in chain, for chain in chains
RECURSIVE count_chain(_, _)
count_chain(o, chain) ==
    IF chain = <<>>
    THEN o
    ELSE LET q == Head(chain)
         IN  count_chain(DictSet(o, q, 1 + (IF q \in DictKeys(o) THEN DictGet(o, q) ELSE -1)),
                         Tail(chain))

count_overlaps_from_zero(cs) ==
    LET qs == UNION {Range(cs[i]) : i \in DOMAIN cs}
        RECURSIVE dict(_)
        dict(left) ==
            IF left = {} THEN <<>>
            ELSE LET q == CHOOSE x \in left : TRUE
                 IN  <<<<q, Cardinality({i \in DOMAIN cs : q \in Range(cs[i])})>>>>
                         \o dict(left \ {q})
    IN  dict(qs)

RECURSIVE count_overlaps(_)
count_overlaps(cs) ==
    IF cs = <<>>
    THEN <<>>
    ELSE count_chain(count_overlaps(SubSeq(cs, 1, Len(cs) - 1)), cs[Len(cs)])

\* d.values()
DictValues(d) == [i \in DOMAIN d |-> d[i][2]]

\* histogram_key(sizes): h counts each size other than 0; the items of h in
\* descending order, each as size, count
RECURSIVE histogram_items(_, _)
histogram_items(sizes, left) ==
    IF left = {}
    THEN <<>>
    ELSE LET s == CHOOSE x \in left : \A y \in left : y <= x
         IN  <<s, Cardinality({i \in DOMAIN sizes : sizes[i] = s})>>
                 \o histogram_items(sizes, left \ {s})
RECURSIVE histogram_items_ascending(_, _)
histogram_items_ascending(sizes, left) ==
    IF left = {}
    THEN <<>>
    ELSE LET s == CHOOSE x \in left : \A y \in left : x <= y
         IN  <<s, Cardinality({i \in DOMAIN sizes : sizes[i] = s})>>
                 \o histogram_items_ascending(sizes, left \ {s})
histogram_key_ascending(sizes) == histogram_items_ascending(sizes, Range(sizes) \ {0})

histogram_key(sizes) == histogram_items(sizes, Range(sizes) \ {0})

\* quality_key(emb, embedded)
quality_key(emb, embedded) ==
    IF emb = <<>>
    THEN <<2>>
    ELSE LET L == histogram_key([i \in DOMAIN emb |-> Len(emb[i][2])])
             O == IF embedded
                  THEN <<>>
                  ELSE histogram_key(DictValues(count_overlaps(DictValues(emb))))
             state == IF ~embedded /\ Len(O) # 0 THEN 1 ELSE 0
         IN  <<state, O, L>>

\* a < b for two lists of integers, as Python compares lists
RECURSIVE list_less(_, _)
list_less(a, b) ==
    IF b = <<>> THEN FALSE
    ELSE IF a = <<>> THEN TRUE
    ELSE IF Head(a) # Head(b) THEN Head(a) < Head(b)
    ELSE list_less(Tail(a), Tail(b))

\* a < b for two results of quality_key, as Python compares tuples
key_less(a, b) ==
    IF a[1] # b[1] THEN a[1] < b[1]
    ELSE IF Len(a) = 1 \/ Len(b) = 1 THEN Len(a) < Len(b)
    ELSE IF a[2] # b[2] THEN list_less(a[2], b[2])
    ELSE list_less(a[3], b[3])

\* ----------------------------------------------------- fastrng.hpp
\* a uint64_t or uint32_t is the sequence of its bits, the lowest first;
\* word(l) is the one whose 16-bit pieces are l, the lowest first
word(l) ==
    [i \in 1 .. 16 * Len(l) |-> (l[((i - 1) \div 16) + 1] \div (2 ^ ((i - 1) % 16))) % 2] \o <<>>

xor(a, b) == [i \in DOMAIN a |-> (a[i] + b[i]) % 2]
or(a, b) == [i \in DOMAIN a |-> IF a[i] + b[i] > 0 THEN 1 ELSE 0]
shr(a, k) == [i \in DOMAIN a |-> IF i + k <= Len(a) THEN a[i + k] ELSE 0]
shl(a, k) == [i \in DOMAIN a |-> IF i - k >= 1 THEN a[i - k] ELSE 0]

\* + and * are done on the bytes of the words, modulo 2^width
to_bytes(a) ==
    [j \in 1 .. (Len(a) \div 8) |->
        a[8 * j - 7] + 2 * a[8 * j - 6] + 4 * a[8 * j - 5] + 8 * a[8 * j - 4]
        + 16 * a[8 * j - 3] + 32 * a[8 * j - 2] + 64 * a[8 * j - 1] + 128 * a[8 * j]]
from_bytes(l) ==
    [i \in 1 .. 8 * Len(l) |-> (l[((i - 1) \div 8) + 1] \div (2 ^ ((i - 1) % 8))) % 2] \o <<>>
RECURSIVE carry_bytes(_, _, _, _)
carry_bytes(cols, k, c, acc) ==
    IF k > Len(cols)
    THEN acc
    ELSE carry_bytes(cols, k + 1, (cols[k] + c) \div 256, Append(acc, (cols[k] + c) % 256))
RECURSIVE dot(_, _, _, _)
dot(a, b, k, i) == IF i > k THEN 0 ELSE a[i] * b[k + 1 - i] + dot(a, b, k, i + 1)
add(a, b) ==
    LET la == to_bytes(a)
        lb == to_bytes(b)
    IN  from_bytes(carry_bytes([k \in DOMAIN la |-> la[k] + lb[k]], 1, 0, <<>>))
mul(a, b) ==
    LET la == to_bytes(a)
        lb == to_bytes(b)
    IN  from_bytes(carry_bytes([k \in DOMAIN la |-> dot(la, lb, k, 1)], 1, 0, <<>>))

\* splitmix64(x): x afterwards and the result
splitmix64(x) ==
    LET x1 == add(x, word(<<\H7C15, \H7F4A, \H79B9, \H9E37>>))
        z1 == mul(xor(x1, shr(x1, 30)), word(<<\HE5B9, \H1CE4, \H476D, \HBF58>>))
        z2 == mul(xor(z1, shr(z1, 27)), word(<<\H11EB, \H1331, \H49BB, \H94D0>>))
    IN  [x |-> x1, r |-> xor(z2, shr(z2, 31)) \o <<>>]

\* splitmix32(x): x afterwards and the result
splitmix32(x) ==
    LET x1 == add(x, word(<<\H79F5, \H6D2B>>))
        z1 == mul(xor(x1, shr(x1, 15)), or(x1, word(<<1, 0>>)))
        z2 == xor(z1, add(z1, mul(xor(z1, shr(z1, 7)), or(z1, word(<<61, 0>>))))) \o <<>>
    IN  [x |-> x1, r |-> xor(z2, shr(z2, 14)) \o <<>>]

\* the body of the loop of discard, which is that of operator() too
advance(g) ==
    LET x == xor(g.S0, shl(g.S0, 23)) \o <<>>
        y == g.S1
    IN  [S0 |-> y, S1 |-> xor(xor(x, y), xor(shr(x, 17), shr(y, 26))) \o <<>>]

\* operator()(): the generator afterwards and the result S1 + y
operator_call(g) ==
    LET h == advance(g)
    IN  [g |-> h, r |-> add(h.S1, g.S1)]

\* discard(n): n turns of the loop, taken as the first n / 2 and then the others
RECURSIVE discard(_, _)
discard(g, n) ==
    IF n <= 0 THEN g
    ELSE IF n = 1 THEN advance(g)
    ELSE With(discard(g, n \div 2), LAMBDA h : discard(h, n - (n \div 2)))

seed_keeps_S1(g, x) ==
    LET a == splitmix64(x)
    IN  discard([S0 |-> a.r, S1 |-> g.S1], 1024)

\* seed(uint64_t x) on the generator g
seed(g, x) ==
    LET a == splitmix64(x)
        b == splitmix64(a.x)
    IN  discard([S0 |-> a.r, S1 |-> b.r], 1024)

\* seed(uint32_t x) on the generator g
seed32(g, x) ==
    LET a == splitmix32(x)
        b == splitmix32(a.x)
        zero == [i \in 1 .. 32 |-> 0]
    IN  seed(g, add(zero \o b.r, a.r \o zero))

\* -------------------------------------------- the calls of find_embedding
\* a user's label
U(x) == <<x>>

EmptyDict == <<>>
NoParams == [x \in {} |-> x]

\* the source and target edge lists tried
SourceGraphs ==
    { << <<U(1), U(2)>> >>,
      << <<U(1), U(2)>>, <<U(2), U(3)>> >>,
      << <<U(1), Pin(U(1), 0)>> >> }
TargetGraphs ==
    { << <<U(11), U(12)>> >>,
      << <<U(11), U(12)>>, <<U(12), U(13)>> >>,
      << <<U(11), U(12)>>, <<U(12), Pin(U(2), 1)>> >> }

\* the values tried for fixed_chains, initial_chains, restrict_chains and suspend_chains
FixedChoices ==
    { EmptyDict,
      << <<U(1), <<U(11)>> >> >>,
      << <<U(3), <<U(11)>> >> >>,
      << <<U(1), <<U(13)>> >> >>,
      << <<U(3), <<>> >> >>,
      << <<U(1), <<Pin(U(1), 0)>> >> >> }
InitialChoices ==
    { << <<U(2), <<U(12)>> >> >>,
      << <<U(3), <<>> >> >>,
      << <<U(2), <<U(13)>> >> >> }
RestrictChoices ==
    { << <<U(1), <<U(11), U(12)>> >> >>,
      << <<U(3), <<U(11)>> >> >> }
SuspendChoices ==
    { EmptyDict,
      << <<U(1), << <<U(11)>> >> >> >>,
      << <<U(1), << <<>> >> >> >>,
      << <<U(3), << <<>> >> >> >>,
      << <<U(3), << <<U(11)>> >> >> >>,
      << <<U(1), << <<U(13)>> >> >> >>,
      << <<U(1), << <<>>, <<U(11), U(12)>> >> >> >>,
      << <<U(1), << <<Pin(U(1), 1)>>, <<U(11)>> >> >> >>,
      << <<U(1), << <<U(11)>> >> >>, <<U(2), << <<U(12)>>, <<U(11)>> >> >> >> }

\* a keyword argument: left out, or given one of the values
Keyword(name, values) == {NoParams} \cup {name :> v : v \in values}

ParamChoices ==
    { a @@ b @@ c @@ d @@ e @@ f :
        a \in Keyword("fixed_chains", FixedChoices),
        b \in Keyword("initial_chains", InitialChoices),
        c \in Keyword("restrict_chains", RestrictChoices),
        d \in Keyword("suspend_chains", SuspendChoices),
        e \in Keyword("return_overlap", {1}),
        f \in Keyword("max_chains", {1}) }

NoOpts == [return_overlap |-> 0, fixed_chains |-> <<>>, initial_chains |-> <<>>,
           restrict_chains |-> <<>>]

\* the state of a call that has not begun
NotBegun ==
    /\ pc = "start"
    /\ SL = <<>> /\ TL = <<>> /\ Sg = <<>> /\ Tg = <<>>
    /\ checkS = 0 /\ checkT = 0
    /\ pincount = 0 /\ self_pincount = 0
    /\ fixed_chains = EmptyDict
    /\ opts = NoOpts
    /\ error = "none"
    /\ invoked = FALSE
    /\ chains = <<>>
    /\ success = 0
    /\ rchain = NoParams

\* no call of find_embeddings
NoLoop == [n |-> 0, force |-> 0, embs |-> <<>>, asked |-> 0, attempts |-> 0]

IdleEmbed ==
    /\ api = "function"
    /\ loop = NoLoop
    /\ S = <<>> /\ T = <<>>
    /\ params = NoParams
    /\ caller_fixed = EmptyDict
    /\ NotBegun

\* no call of quality_key and no generator
IdleQuality == embs = <<>> /\ flags = <<>> /\ keys = <<>>

IdleRng ==
    /\ rng = <<>> /\ rseed = <<>> /\ rpos = <<>>
    /\ rhist = {} /\ rout = {}
    /\ nseeds = 0 /\ ndraws = 0

\* the queue a specification does not use stays as constructed
IdleQ == pq = Construct /\ inq = {} /\ pops = <<>>
IdleFast == fq = FastConstruct /\ fq0 = FastConstruct /\ qret0 = NoRet /\ touched = {}

\* what every call but reset() does to the caller's record of calls
Called(op, k, v) ==
    /\ ncalls < MaxCalls
    /\ ncalls' = ncalls + 1
    /\ qcall' = Call(op, k, v)
    /\ UNCHANGED <<started, nresets>>
    /\ UNCHANGED <<evars, kvars, rvars>>

FastCalled(op, k, v) ==
    /\ ncalls < MaxFastCalls
    /\ ncalls' = ncalls + 1
    /\ qcall' = Call(op, k, v)
    /\ UNCHANGED <<started, nresets>>
    /\ UNCHANGED <<evars, kvars, rvars>>

Reset ==
    /\ Running(pq)
    /\ nresets < MaxResets
    /\ pq' = reset(pq)
    /\ UNCHANGED fvars
    /\ inq' = {}
    /\ pops' = <<>>
    /\ started' = TRUE
    /\ qcall' = Call("reset", NULL, 0)
    /\ nresets' = nresets + 1
    /\ UNCHANGED <<qret, ncalls>>
    /\ UNCHANGED <<evars, kvars, rvars>>

SetValue ==
    \E k \in Keys, v \in P :
        /\ Running(pq)
        /\ Called("set_value", k, v)
        /\ pq' = set_value(pq, k, v)
        /\ UNCHANGED fvars
        /\ inq' = inq \cup {k}
        /\ UNCHANGED <<qret, pops>>

CheckDecreaseValue ==
    \E k \in Keys, v \in P :
        \E c \in {check_decrease_value(pq, k, v)} :
            /\ Running(pq)
            /\ Called("check_decrease_value", k, v)
            /\ pq' = c.q
            /\ UNCHANGED fvars
            /\ inq' = IF c.r THEN inq \cup {k} ELSE inq
            /\ UNCHANGED pops
            /\ qret' = [qret EXCEPT !.r = c.r]

\* decrease_value asserts v < n->val: it is called with a smaller value only
DecreaseValue ==
    \E k \in Keys, v \in P :
        /\ Running(pq)
        /\ v < pq.val[k]
        /\ Called("decrease_value", k, v)
        /\ pq' = decrease_value(pq, k, v)
        /\ UNCHANGED fvars
        /\ inq' = inq \cup {k}
        /\ UNCHANGED <<qret, pops>>

DeleteMin ==
    \E d \in {delete_min(pq)} :
        /\ Running(pq)
        /\ Called("delete_min", NULL, 0)
        /\ pq' = d.q
        /\ UNCHANGED fvars
        /\ inq' = IF d.r THEN inq \ {pq.root} ELSE inq
        /\ pops' = IF d.r THEN Append(pops, <<min_key(pq), min_value(pq)>>) ELSE pops
        /\ qret' = [qret EXCEPT !.r = d.r]

PopMin ==
    \E p \in {pop_min(pq, qret.key, qret.value)} :
        /\ Running(pq)
        /\ Called("pop_min", NULL, 0)
        /\ pq' = p.q
        /\ UNCHANGED fvars
        /\ inq' = IF p.r THEN inq \ {p.key} ELSE inq
        /\ pops' = IF p.r THEN Append(pops, <<p.key, p.value>>) ELSE pops
        /\ qret' = [r |-> p.r, key |-> p.key, value |-> p.value]

Init == InitQ /\ IdleFast /\ IdleEmbed /\ IdleQuality /\ IdleRng

Next ==
    \/ Reset
    \/ SetValue
    \/ CheckDecreaseValue
    \/ DecreaseValue
    \/ DeleteMin
    \/ PopMin

Spec == Init /\ [][Next]_vars

\* ------------- a caller that uses the pairing_queue as Dijkstra's algorithm does
\* the keys taken out since the reset() and the value of the last one
PoppedKeys == {pops[i][1] : i \in DOMAIN pops}
LastPopped == IF pops = <<>> THEN 0 ELSE pops[Len(pops)][2]
\* v is not below the value k was popped with, nor below the last value popped
Offered(k, v) ==
    /\ v >= LastPopped
    /\ \A i \in DOMAIN pops : pops[i][1] = k => v >= pops[i][2]

\* set_value(k, v) for a key that was not popped
DijkstraSetValue ==
    \E k \in Keys \ PoppedKeys, v \in P :
        /\ started /\ Running(pq)
        /\ Offered(k, v)
        /\ Called("set_value", k, v)
        /\ pq' = set_value(pq, k, v)
        /\ UNCHANGED fvars
        /\ inq' = inq \cup {k}
        /\ UNCHANGED <<qret, pops>>

\* check_decrease_value(k, v) for any key
DijkstraCheckDecreaseValue ==
    \E k \in Keys, v \in P :
        \E c \in {check_decrease_value(pq, k, v)} :
            /\ started /\ Running(pq)
            /\ Offered(k, v)
            /\ Called("check_decrease_value", k, v)
            /\ pq' = c.q
            /\ UNCHANGED fvars
            /\ inq' = IF c.r THEN inq \cup {k} ELSE inq
            /\ UNCHANGED pops
            /\ qret' = [qret EXCEPT !.r = c.r]

NextDijkstra ==
    \/ Reset
    \/ DijkstraSetValue
    \/ DijkstraCheckDecreaseValue
    \/ PopMin

SpecDijkstra == Init /\ [][NextDijkstra]_vars

\* ---------------------------- the caller of a pairing_queue_fast_reset
\* fq0 is constructed and reset once, so it holds nothing written before the reset
FastReset ==
    /\ Running(fq)
    /\ nresets < MaxResets
    /\ fq' \in fast_reset_outcomes(fq)
    /\ fq0' = fast_reset(FastConstruct)
    /\ touched' = {}
    /\ started' = TRUE
    /\ qcall' = Call("reset", NULL, 0)
    /\ nresets' = nresets + 1
    /\ UNCHANGED <<qret, qret0, pq, inq, pops, ncalls>>
    /\ UNCHANGED <<evars, kvars, rvars>>

FastSetValue ==
    \E k \in Keys, v \in P :
        /\ Running(fq)
        /\ FastCalled("set_value", k, v)
        /\ fq' = fast_set_value(fq, k, v)
        /\ fq0' = fast_set_value(fq0, k, v)
        /\ touched' = touched \cup {k}
        /\ UNCHANGED <<qret, qret0, pq, inq, pops>>

FastCheckDecreaseValue ==
    \E k \in Keys, v \in P :
        \E c \in {fast_check_decrease_value(fq, k, v)},
           c0 \in {fast_check_decrease_value(fq0, k, v)} :
            /\ Running(fq)
            /\ FastCalled("check_decrease_value", k, v)
            /\ fq' = c.q
            /\ fq0' = c0.q
            /\ touched' = IF c.r THEN touched \cup {k} ELSE touched
            /\ qret' = [qret EXCEPT !.r = c.r]
            /\ qret0' = [qret0 EXCEPT !.r = c0.r]
            /\ UNCHANGED <<pq, inq, pops>>

FastDeleteMin ==
    \E d \in {delete_min(fq)}, d0 \in {delete_min(fq0)} :
        /\ Running(fq)
        /\ FastCalled("delete_min", NULL, 0)
        /\ fq' = d.q
        /\ fq0' = d0.q
        /\ qret' = [qret EXCEPT !.r = d.r]
        /\ qret0' = [qret0 EXCEPT !.r = d0.r]
        /\ UNCHANGED <<touched, pq, inq, pops>>

FastPopMin ==
    \E p \in {pop_min(fq, qret.key, qret.value)},
       p0 \in {pop_min(fq0, qret0.key, qret0.value)} :
        /\ Running(fq)
        /\ FastCalled("pop_min", NULL, 0)
        /\ fq' = p.q
        /\ fq0' = p0.q
        /\ qret' = [r |-> p.r, key |-> p.key, value |-> p.value]
        /\ qret0' = [r |-> p0.r, key |-> p0.key, value |-> p0.value]
        /\ UNCHANGED <<touched, pq, inq, pops>>

InitFast ==
    /\ IdleQ
    /\ IdleEmbed /\ IdleQuality /\ IdleRng
    /\ fq = FastConstruct
    /\ fq0 = FastConstruct
    /\ qret0 = NoRet
    /\ touched = {}
    /\ started = FALSE
    /\ qcall = NoCall
    /\ qret = NoRet
    /\ ncalls = 0
    /\ nresets = 0

\* the queue after so many reset() calls that now is about to overflow, or has wrapped
\* and is about to come back to 0, no key having been set since the construction
WrapStarts == {INT_MAX - 1, -2}
InitWrap ==
    /\ IdleQ
    /\ IdleEmbed /\ IdleQuality /\ IdleRng
    /\ fq \in {[FastConstruct EXCEPT !.now = n] : n \in WrapStarts}
    /\ fq0 = fast_reset(FastConstruct)
    /\ qret0 = NoRet
    /\ touched = {}
    /\ started = TRUE
    /\ qcall = Call("reset", NULL, 0)
    /\ qret = NoRet
    /\ ncalls = 0
    /\ nresets = 0

NextFast ==
    \/ FastReset
    \/ FastSetValue
    \/ FastCheckDecreaseValue
    \/ FastDeleteMin
    \/ FastPopMin

SpecFast == InitFast /\ [][NextFast]_vars
SpecWrap == InitWrap /\ [][NextFast]_vars

\* ------ a pairing_queue and a pairing_queue_fast_reset given the same calls
\* qret is what the pairing_queue returned, qret0 what the pairing_queue_fast_reset did
PairReset ==
    /\ Running(pq) /\ Running(fq)
    /\ nresets < MaxResets
    /\ pq' = reset(pq)
    /\ fq' \in fast_reset_outcomes(fq)
    /\ inq' = {}
    /\ pops' = <<>>
    /\ started' = TRUE
    /\ qcall' = Call("reset", NULL, 0)
    /\ nresets' = nresets + 1
    /\ UNCHANGED <<qret, qret0, fq0, touched, ncalls>>
    /\ UNCHANGED <<evars, kvars, rvars>>

PairSetValue ==
    \E k \in Keys, v \in P :
        /\ started /\ Running(pq) /\ Running(fq)
        /\ Called("set_value", k, v)
        /\ pq' = set_value(pq, k, v)
        /\ fq' = fast_set_value(fq, k, v)
        /\ inq' = inq \cup {k}
        /\ UNCHANGED <<qret, qret0, pops, fq0, touched>>

PairCheckDecreaseValue ==
    \E k \in Keys, v \in P :
        \E c \in {check_decrease_value(pq, k, v)},
           f \in {fast_check_decrease_value(fq, k, v)} :
            /\ started /\ Running(pq) /\ Running(fq)
            /\ Called("check_decrease_value", k, v)
            /\ pq' = c.q
            /\ fq' = f.q
            /\ inq' = IF c.r THEN inq \cup {k} ELSE inq
            /\ qret' = [qret EXCEPT !.r = c.r]
            /\ qret0' = [qret0 EXCEPT !.r = f.r]
            /\ UNCHANGED <<pops, fq0, touched>>

PairDeleteMin ==
    \E d \in {delete_min(pq)}, f \in {delete_min(fq)} :
        /\ started /\ Running(pq) /\ Running(fq)
        /\ Called("delete_min", NULL, 0)
        /\ pq' = d.q
        /\ fq' = f.q
        /\ inq' = IF d.r THEN inq \ {pq.root} ELSE inq
        /\ pops' = IF d.r THEN Append(pops, <<min_key(pq), min_value(pq)>>) ELSE pops
        /\ qret' = [qret EXCEPT !.r = d.r]
        /\ qret0' = [qret0 EXCEPT !.r = f.r]
        /\ UNCHANGED <<fq0, touched>>

PairPopMin ==
    \E p \in {pop_min(pq, qret.key, qret.value)},
       f \in {pop_min(fq, qret0.key, qret0.value)} :
        /\ started /\ Running(pq) /\ Running(fq)
        /\ Called("pop_min", NULL, 0)
        /\ pq' = p.q
        /\ fq' = f.q
        /\ inq' = IF p.r THEN inq \ {p.key} ELSE inq
        /\ pops' = IF p.r THEN Append(pops, <<p.key, p.value>>) ELSE pops
        /\ qret' = [r |-> p.r, key |-> p.key, value |-> p.value]
        /\ qret0' = [r |-> f.r, key |-> f.key, value |-> f.value]
        /\ UNCHANGED <<fq0, touched>>

NextPair ==
    \/ PairReset
    \/ PairSetValue
    \/ PairCheckDecreaseValue
    \/ PairDeleteMin
    \/ PairPopMin

SpecPair == Init /\ [][NextPair]_vars

\* ----------------------------------- find_embedding and class minorminer
InitEmbed ==
    /\ IdleQ /\ IdleFast /\ IdleQuality /\ IdleRng
    /\ started = FALSE /\ qcall = NoCall /\ qret = NoRet /\ ncalls = 0 /\ nresets = 0
    /\ api \in {"function", "method"}
    /\ S \in SourceGraphs
    /\ T \in TargetGraphs
    /\ params \in ParamChoices
    /\ caller_fixed = Param("fixed_chains", EmptyDict)
    /\ loop = NoLoop
    /\ NotBegun

Raise(e) == error' = e /\ pc' = "raised"

\* lines 216-223
CheckNames ==
    /\ pc = "start"
    /\ IF check_names(params) # "none"
       THEN Raise(check_names(params))
       ELSE pc' = "options" /\ UNCHANGED error
    /\ UNCHANGED <<loop, api, S, T, params, caller_fixed, SL, TL, Sg, Tg, checkS, checkT, pincount,
                   self_pincount, fixed_chains, opts, invoked, chains, success, rchain>>
    /\ UNCHANGED <<qvars, fvars, kvars, rvars>>

\* lines 225-262: of the scalar options only return_overlap is read again
ReadOptions ==
    /\ pc = "options"
    /\ opts' = [opts EXCEPT !.return_overlap = Param("return_overlap", 0)]
    /\ pc' = "read_S"
    /\ UNCHANGED <<loop, api, S, T, params, caller_fixed, SL, TL, Sg, Tg, checkS, checkT, pincount,
                   self_pincount, fixed_chains, error, invoked, chains, success, rchain>>
    /\ UNCHANGED <<qvars, fvars, kvars, rvars>>

\* line 264
ReadS ==
    /\ pc = "read_S"
    /\ LET r == read_graph(S, <<>>, <<>>)
       IN  SL' = r.L /\ Sg' = r.g
    /\ pc' = "read_T"
    /\ UNCHANGED <<loop, api, S, T, params, caller_fixed, TL, Tg, checkS, checkT, pincount,
                   self_pincount, fixed_chains, opts, error, invoked, chains, success, rchain>>
    /\ UNCHANGED <<qvars, fvars, kvars, rvars>>

\* lines 265-272
ReadT ==
    /\ pc = "read_T"
    /\ LET r == read_graph(T, <<>>, <<>>)
       IN  TL' = r.L /\ Tg' = r.g /\ checkT' = Len(r.L)
    /\ checkS' = Len(SL)
    /\ pincount' = 0
    /\ fixed_chains' = Param("fixed_chains", EmptyDict)
    /\ pc' = "suspend"
    /\ UNCHANGED <<loop, api, S, T, params, caller_fixed, SL, Sg,
                   self_pincount, opts, error, invoked, chains, success, rchain>>
    /\ UNCHANGED <<qvars, fvars, kvars, rvars>>

\* lines 273-290: fixed_chains is the caller's dict when the caller passed one
Suspend ==
    /\ pc = "suspend"
    /\ LET st == suspend_items([SL |-> SL, TL |-> TL, Sg |-> Sg, Tg |-> Tg,
                                pincount |-> pincount, fixed_chains |-> fixed_chains,
                                error |-> "none"],
                               Param("suspend_chains", EmptyDict))
       IN  /\ SL' = st.SL /\ TL' = st.TL /\ Sg' = st.Sg /\ Tg' = st.Tg
           /\ pincount' = st.pincount
           /\ fixed_chains' = st.fixed_chains
           /\ caller_fixed' = IF "fixed_chains" \in DOMAIN params
                              THEN st.fixed_chains ELSE caller_fixed
           /\ IF st.error # "none"
              THEN Raise(st.error)
              ELSE pc' = "check_suspend" /\ UNCHANGED error
    /\ UNCHANGED <<loop, api, S, T, params, checkS, checkT,
                   self_pincount, opts, invoked, chains, success, rchain>>
    /\ UNCHANGED <<qvars, fvars, kvars, rvars>>

\* lines 292-298
CheckSuspend ==
    /\ pc = "check_suspend"
    /\ IF checkS + pincount < Len(SL)
       THEN Raise("RuntimeError: suspend_chains use source node labels") /\ UNCHANGED <<checkS, checkT>>
       ELSE IF checkT + pincount < Len(TL)
       THEN Raise("RuntimeError: suspend_chains use target node labels") /\ UNCHANGED <<checkS, checkT>>
       ELSE /\ checkS' = checkS + pincount
            /\ checkT' = checkT + pincount
            /\ pc' = "fixed"
            /\ UNCHANGED error
    /\ UNCHANGED <<loop, api, S, T, params, caller_fixed, SL, TL, Sg, Tg, pincount,
                   self_pincount, fixed_chains, opts, invoked, chains, success, rchain>>
    /\ UNCHANGED <<qvars, fvars, kvars, rvars>>

\* _get_chainmap(C, opts.<which>, SL, TL) and the two checks after it
ChainMapStep(C, which, nextpc) ==
    LET r == get_chainmap(C, <<>>, SL, TL)
    IN  /\ SL' = r.SL /\ TL' = r.TL
        /\ opts' = [opts EXCEPT ![which] = r.CMap]
        /\ IF checkS < Len(r.SL)
           THEN Raise("RuntimeError: chains use source node labels")
           ELSE IF checkT < Len(r.TL)
           THEN Raise("RuntimeError: chains use target node labels")
           ELSE pc' = nextpc /\ UNCHANGED error
        /\ UNCHANGED <<loop, api, S, T, params, caller_fixed, Sg, Tg, checkS, checkT, pincount,
                       self_pincount, fixed_chains, invoked, chains, success, rchain>>
        /\ UNCHANGED <<qvars, fvars, kvars, rvars>>

\* lines 300-304
FixedChains ==
    pc = "fixed" /\ ChainMapStep(fixed_chains, "fixed_chains", "initial")

\* lines 305-309
InitialChains ==
    pc = "initial" /\ ChainMapStep(Param("initial_chains", EmptyDict), "initial_chains", "restrict")

\* lines 310-314
RestrictChains ==
    pc = "restrict" /\ ChainMapStep(Param("restrict_chains", EmptyDict), "restrict_chains", "parsed")

\* findEmbedding(Sg, Tg, opts, chains) and pathfinder_wrapper.heuristicEmbedding():
\* with success or return_overlap one chain per source id, else none
Heuristic ==
    /\ pc = "parsed"
    /\ invoked' = TRUE
    /\ \E ok \in {0, 1} :
        /\ success' = ok
        /\ IF ok = 1 \/ opts.return_overlap # 0
           THEN \E c \in [0 .. (Len(SL) - 1) -> {<<0>>, <<1>>}] :
                    chains' = [i \in 1 .. Len(SL) |->
                                 IF (i - 1) \in DictKeys(opts.fixed_chains)
                                 THEN DictGet(opts.fixed_chains, i - 1)
                                 ELSE c[i - 1]]
           ELSE chains' = <<>>
    /\ pc' = "embedded"
    /\ UNCHANGED <<loop, api, S, T, params, caller_fixed, SL, TL, Sg, Tg, checkS, checkT, pincount,
                   self_pincount, fixed_chains, opts, error, rchain>>
    /\ UNCHANGED <<qvars, fvars, kvars, rvars>>

\* rchain[SL.label(v)] = [TL.label(z) for z in chain] for v in range(n)
result_chains(n) ==
    [l \in {label(SL, v) : v \in 0 .. (n - 1)} |->
        LET chain == chains[label_id(SL, l) + 1]
        IN  [j \in DOMAIN chain |-> label(TL, chain[j])]]

\* find_embedding, lines 192-203
function_result ==
    IF Len(chains) # 0
    THEN result_chains(Len(chains) - self_pincount)
    ELSE NoParams

\* minorminer.find_embedding, lines 331-341: num_vars() is the number of source ids
method_result ==
    IF opts.return_overlap # 0 \/ success # 0
    THEN result_chains(Len(SL) - self_pincount)
    ELSE NoParams

Return ==
    /\ pc = "embedded"
    /\ rchain' = IF api = "function" THEN function_result ELSE method_result
    /\ pc' = "returned"
    /\ UNCHANGED <<loop, api, S, T, params, caller_fixed, SL, TL, Sg, Tg, checkS, checkT, pincount,
                   self_pincount, fixed_chains, opts, error, invoked, chains, success>>
    /\ UNCHANGED <<qvars, fvars, kvars, rvars>>

NextEmbed ==
    \/ CheckNames
    \/ ReadOptions
    \/ ReadS
    \/ ReadT
    \/ Suspend
    \/ CheckSuspend
    \/ FixedChains
    \/ InitialChains
    \/ RestrictChains
    \/ Heuristic
    \/ Return

SpecEmbed == InitEmbed /\ [][NextEmbed]_vars

\* --------------------------------------------- minorminer.find_embeddings
\* a minorminer object is made of S, T and params, then find_embeddings(n, force)
InitEmbeddings ==
    /\ IdleQ /\ IdleFast /\ IdleQuality /\ IdleRng
    /\ started = FALSE /\ qcall = NoCall /\ qret = NoRet /\ ncalls = 0 /\ nresets = 0
    /\ api = "method"
    /\ S \in {<<>>, << <<U(1), U(2)>> >>}
    /\ T \in {<< <<U(11), U(12)>> >>}
    /\ params \in { a @@ b @@ c :
                        a \in Keyword("return_overlap", {0, 1}),
                        b \in Keyword("suspend_chains", {<< <<U(1), << <<U(11)>> >> >> >>}),
                        c \in Keyword("max_chains", {1}) }
    /\ caller_fixed = EmptyDict
    /\ \E n \in -1 .. MaxN, force \in {0, 1, 2} :
          loop = [n |-> n, force |-> force, embs |-> <<>>, asked |-> n, attempts |-> 0]
    /\ NotBegun

\* while n > 0: emb = self.find_embedding(), as far as the call of the heuristic
Attempt ==
    /\ pc = "parsed"
    /\ loop.n > 0
    /\ loop.attempts < MaxAttempts
    /\ Heuristic

succ_always(emb) == 1

\* find_embedding returns a tuple exactly when return_overlap is set
succ(emb) == IF opts.return_overlap # 0 THEN 1 ELSE Cardinality(DOMAIN emb)

\* lines 348-356: the rest of the body of the loop
Collect ==
    /\ pc = "returned"
    /\ loop' = [loop EXCEPT
                  !.embs = IF succ(rchain) # 0 THEN Append(@, rchain) ELSE @,
                  !.n = IF succ(rchain) # 0 \/ loop.force = 0 THEN @ - 1 ELSE @,
                  !.attempts = @ + 1]
    /\ pc' = "parsed"
    /\ UNCHANGED <<api, S, T, params, caller_fixed, SL, TL, Sg, Tg, checkS, checkT, pincount,
                   self_pincount, fixed_chains, opts, error, invoked, chains, success, rchain>>
    /\ UNCHANGED <<qvars, fvars, kvars, rvars>>

\* the loop is left: return embs
ReturnEmbs ==
    /\ pc = "parsed"
    /\ loop.n <= 0
    /\ pc' = "done"
    /\ UNCHANGED <<loop, api, S, T, params, caller_fixed, SL, TL, Sg, Tg, checkS, checkT, pincount,
                   self_pincount, fixed_chains, opts, error, invoked, chains, success, rchain>>
    /\ UNCHANGED <<qvars, fvars, kvars, rvars>>

NextEmbeddings ==
    \/ CheckNames
    \/ ReadOptions
    \/ ReadS
    \/ ReadT
    \/ Suspend
    \/ CheckSuspend
    \/ FixedChains
    \/ InitialChains
    \/ RestrictChains
    \/ Attempt
    \/ Return
    \/ Collect
    \/ ReturnEmbs

\* the code runs on: every call of the heuristic is taken to return
SpecEmbeddings == InitEmbeddings /\ [][NextEmbeddings]_vars /\ WF_vars(NextEmbeddings)

\* --------------------------------------------- calls of quality_key
\* the chains tried: lists of target labels without repetition
QChains == {<<>>, <<0>>, <<1>>, <<2>>, <<0, 1>>, <<1, 0>>, <<0, 2>>, <<2, 0>>, <<1, 2>>, <<2, 1>>}
\* the embeddings tried: dicts of at most two chains
QEmbs ==
    {<<>>} \cup {<< <<1, c>> >> : c \in QChains}
           \cup {<< <<1, c>>, <<2, d>> >> : c \in QChains, d \in QChains}

InitQuality ==
    /\ IdleQ /\ IdleFast /\ IdleEmbed /\ IdleRng
    /\ started = FALSE /\ qcall = NoCall /\ qret = NoRet /\ ncalls = 0 /\ nresets = 0
    /\ embs \in QEmbs \X QEmbs
    /\ flags = <<>>
    /\ keys = <<>>

\* key = quality_key(emb, embedded) for the next of the embeddings
QualityKey ==
    /\ Len(keys) < Len(embs)
    /\ \E embedded \in BOOLEAN :
        /\ flags' = Append(flags, embedded)
        /\ keys' = Append(keys, quality_key(embs[Len(keys) + 1], embedded))
    /\ UNCHANGED <<embs, qvars, fvars, evars, rvars>>

NextQuality == QualityKey

SpecQuality == InitQuality /\ [][NextQuality]_vars

\* ------------------- calls of quality_key with embeddings of given chain lengths
\* the lists of chain lengths tried, 0 being the length of an empty chain
SizeLists == UNION {[1 .. n -> 0 .. MaxSize] : n \in 0 .. MaxChains}
\* the embedding whose chain i holds sizes[i] target labels of its own
RECURSIVE disjoint_chains(_, _, _)
disjoint_chains(sizes, i, used) ==
    IF i > Len(sizes)
    THEN <<>>
    ELSE << <<i, [j \in 1 .. sizes[i] |-> used + j]>> >>
             \o disjoint_chains(sizes, i + 1, used + sizes[i])
HEmbs == {disjoint_chains(sizes, 1, 0) : sizes \in SizeLists}

InitHistogram ==
    /\ IdleQ /\ IdleFast /\ IdleEmbed /\ IdleRng
    /\ started = FALSE /\ qcall = NoCall /\ qret = NoRet /\ ncalls = 0 /\ nresets = 0
    /\ embs \in HEmbs \X HEmbs
    /\ flags = <<>>
    /\ keys = <<>>

SpecHistogram == InitHistogram /\ [][NextQuality]_vars

\* ------------------------------------------------- calls on two fastrng
NoSeed == <<"none">>
\* what the members of a generator that was never seeded may hold
Garbage ==
    {[S0 |-> word(<<0, 0, 0, 0>>), S1 |-> word(<<0, 0, 0, 0>>)],
     [S0 |-> word(<<\HBEEF, \HDEAD, 1, \H8000>>), S1 |-> word(<<\HFFFF, \HFFFF, \HFFFF, \HFFFF>>)]}
\* the seeds tried
Seeds64 == {<<0, 0, 0, 0>>, <<\HFFFF, \HFFFF, \HFFFF, \HFFFF>>}
Seeds32 == {<<\H3039, \H8000>>}

\* fastrng(): the two members are not initialised
InitRng ==
    /\ IdleQ /\ IdleFast /\ IdleEmbed /\ IdleQuality
    /\ started = FALSE /\ qcall = NoCall /\ qret = NoRet /\ ncalls = 0 /\ nresets = 0
    /\ rng \in Garbage \X Garbage
    /\ rseed = <<NoSeed, NoSeed>>
    /\ rpos = <<0, 0>>
    /\ rhist = {} /\ rout = {}
    /\ nseeds = 0 /\ ndraws = 0

Seeded(i, x, g) ==
    /\ nseeds < MaxSeeds
    /\ nseeds' = nseeds + 1
    /\ rng' = [rng EXCEPT ![i] = g]
    /\ rseed' = [rseed EXCEPT ![i] = x]
    /\ rpos' = [rpos EXCEPT ![i] = 0]
    /\ rhist' = rhist \cup {<<x, 0, g>>}
    /\ UNCHANGED <<rout, ndraws>>
    /\ UNCHANGED <<qvars, fvars, evars, kvars>>

Seed ==
    \E i \in 1 .. 2, x \in Seeds64 : Seeded(i, <<64, x>>, seed(rng[i], word(x)))

Seed32 ==
    \E i \in 1 .. 2, x \in Seeds32 : Seeded(i, <<32, x>>, seed32(rng[i], word(x)))

OperatorCall ==
    \E i \in 1 .. 2 :
        LET c == operator_call(rng[i])
        IN  /\ ndraws < MaxDraws
            /\ ndraws' = ndraws + 1
            /\ rng' = [rng EXCEPT ![i] = c.g]
            /\ rpos' = [rpos EXCEPT ![i] = @ + 1]
            /\ IF rseed[i] # NoSeed
               THEN /\ rhist' = rhist \cup {<<rseed[i], rpos[i] + 1, c.g>>}
                    /\ rout' = rout \cup {<<rseed[i], rpos[i] + 1, c.r>>}
               ELSE UNCHANGED <<rhist, rout>>
            /\ UNCHANGED <<rseed, nseeds>>
            /\ UNCHANGED <<qvars, fvars, evars, kvars>>

Discard ==
    \E i \in 1 .. 2, n \in {-1, 2} :
        LET g == discard(rng[i], n)
            p == rpos[i] + (IF n > 0 THEN n ELSE 0)
        IN  /\ ndraws < MaxDraws
            /\ ndraws' = ndraws + 1
            /\ rng' = [rng EXCEPT ![i] = g]
            /\ rpos' = [rpos EXCEPT ![i] = p]
            /\ IF rseed[i] # NoSeed
               THEN rhist' = rhist \cup {<<rseed[i], p, g>>}
               ELSE UNCHANGED rhist
            /\ UNCHANGED <<rout, rseed, nseeds>>
            /\ UNCHANGED <<qvars, fvars, evars, kvars>>

NextRng ==
    \/ Seed
    \/ Seed32
    \/ OperatorCall
    \/ Discard

SpecRng == InitRng /\ [][NextRng]_vars

\* ----------------------------------------------------------------- claims
\* the results of n successive pop_min calls on q
RECURSIVE PopSeq(_, _)
PopSeq(q, n) ==
    IF n = 0 \/ ~Running(q)
    THEN <<>>
    ELSE LET p == pop_min(q, NULL, 0)
         IN  <<[r |-> p.r, key |-> p.key, value |-> p.value, fault |-> p.q.fault]>>
                 \o PopSeq(p.q, n - 1)

\* C1: after a reset() and any sequence of calls, whenever the queue is not empty
\* min_key() is a key that is in the queue (set since the reset, not yet popped) and
\* min_value() is the smallest value of the keys in the queue
C1_MinQueue ==
    (started /\ Running(pq) /\ ~empty(pq.root)) =>
        /\ min_key(pq) \in inq
        /\ \A k \in inq : min_value(pq) <= pq.val[k]

\* C3: when several keys of the queue hold the smallest value, the root (the key
\* pop_min returns) is the smallest of them
C3_TieByKey ==
    (/\ started /\ Running(pq) /\ ~empty(pq.root)
     /\ min_key(pq) \in inq
     /\ \A k \in inq : min_value(pq) <= pq.val[k]) =>
        \A k \in inq : (pq.val[k] = min_value(pq)) => (min_key(pq) <= k)

\* C4: a check_decrease_value(k, v) with v not below the value of k returns false and
\* changes no value, no membership and no later pop; with v below it, it returns
\* true and the value of k becomes v (pairing_queue_fast_reset)
C4_CheckDecreaseNoOp ==
    [][\A k \in Keys, v \in P :
         (started /\ qcall' = Call("check_decrease_value", k, v) /\ Running(fq')) =>
            IF v < get_value(fq, k)
            THEN qret'.r = TRUE /\ get_value(fq', k) = v
            ELSE /\ qret'.r = FALSE
                 /\ \A j \in Keys : get_value(fq', j) = get_value(fq, j)
                 /\ empty(fq'.root) = empty(fq.root)
                 /\ PopSeq(fq', NumKeys) = PopSeq(fq, NumKeys)]_vars

\* C5: after reset() on a pairing_queue_fast_reset the queue is empty and get_value(k)
\* is the maximum value for every key, and stays so for k until k is set; and every
\* result after the reset is the one a queue holding nothing from before gives (fq0)
C5_ResetForgets ==
    /\ (qcall.op = "reset") =>
            (empty(fq.root) /\ \A k \in Keys : get_value(fq, k) = max_P)
    /\ started => \A k \in Keys \ touched : get_value(fq, k) = max_P
    /\ qret = qret0
    /\ fq.fault = fq0.fault
    /\ empty(fq.root) = empty(fq0.root)
    /\ started => \A k \in Keys : get_value(fq, k) = get_value(fq0, k)
    /\ started => PopSeq(fq, NumKeys) = PopSeq(fq0, NumKeys)

\* C5 witness: after a second reset() a key was popped while another key still holds
\* the links and the value written before that reset
C5_Witness ==
    /\ nresets = 2
    /\ qcall.op = "pop_min" /\ qret.r
    /\ \E k \in Keys : fq.time[k] # fq.now /\ fq.prev[k] # fq0.prev[k] /\ fq.val[k] # fq0.val[k]


\* ---- what a call of find_embedding was given
\* the labels that occur in an edge of E
EdgeLabels(E) == UNION {{E[i][1], E[i][2]} : i \in DOMAIN E}

GivenSuspend == Param("suspend_chains", EmptyDict)
GivenChains ==
    {Param("fixed_chains", EmptyDict), Param("initial_chains", EmptyDict),
     Param("restrict_chains", EmptyDict)}

\* <<v, j, B>> for each blob B at index j (from 0) of suspend_chains[v]
Blobs ==
    UNION {{<<GivenSuspend[i][1], j - 1, GivenSuspend[i][2][j]>> :
                j \in DOMAIN GivenSuspend[i][2]} : i \in DOMAIN GivenSuspend}
NonEmptyBlobs == {b \in Blobs : b[3] # <<>>}

IsPin(l) == Len(l) = 3
Parsed == pc \in {"parsed", "embedded", "returned"}
LabelError ==
    error \in {"RuntimeError: suspend_chains use source node labels",
               "RuntimeError: suspend_chains use target node labels",
               "RuntimeError: chains use source node labels",
               "RuntimeError: chains use target node labels"}

\* C2: when suspend_chains holds a non-empty blob, every key of the returned mapping
\* is a label of the user's source graph and no pin label, no returned chain holds a
\* pin label, and the mapping has as many entries as there are chains minus pins.
C2_PinsStripped ==
    (pc = "returned" /\ NonEmptyBlobs # {}) =>
        /\ \A l \in DOMAIN rchain :
              /\ l \in EdgeLabels(S)
              /\ ~IsPin(l)
              /\ \A j \in DOMAIN rchain[l] : ~IsPin(rchain[l][j])
        /\ Cardinality(DOMAIN rchain) = Len(chains) - Cardinality(NonEmptyBlobs)
        /\ (Len(chains) # 0 => Cardinality(DOMAIN rchain) = Cardinality(EdgeLabels(S)))

\* C6: a key of params outside the sixteen names makes the call raise the usage
\* error, and whenever that error is raised neither graph has been read and the
\* heuristic has not been invoked.
C6_UnknownOptionEager ==
    /\ Cardinality(names) = 16
    /\ ((pc # "start" /\ DOMAIN params \ names # {}) =>
            (pc = "raised" /\ error = "ValueError: not a valid parameter"))
    /\ (error = "ValueError: not a valid parameter" =>
            /\ DOMAIN params \ names # {}
            /\ SL = <<>> /\ TL = <<>> /\ Sg = <<>> /\ Tg = <<>>
            /\ ~invoked)

C6_Witness ==
    /\ pc = "raised"
    /\ error = "ValueError: not a valid parameter"
    /\ "max_chains" \in DOMAIN params
    /\ "suspend_chains" \in DOMAIN params
    /\ "fixed_chains" \in DOMAIN params

\* every source label and every target label the four chain options refer to
AllRefS ==
    UNION {DictKeys(C) : C \in GivenChains} \cup DictKeys(GivenSuspend)
AllRefT ==
    UNION {UNION {Range(C[i][2]) : i \in DOMAIN C} : C \in GivenChains}
        \cup UNION {Range(b[3]) : b \in Blobs}

UsedRefS ==
    UNION {{C[i][1] : i \in {k \in DOMAIN C : C[k][2] # <<>>}} : C \in GivenChains}
        \cup {b[1] : b \in NonEmptyBlobs}
\* the pin labels the call makes
CreatedPins == {Pin(b[1], b[2]) : b \in NonEmptyBlobs}
KnownRefs ==
    /\ UsedRefS \subseteq (EdgeLabels(S) \cup CreatedPins)
    /\ AllRefT \subseteq (EdgeLabels(T) \cup CreatedPins)

EdgesAfter(g, n) == {g[i] : i \in (n + 1) .. Len(g)}
\* what the setup made of blob b
PinMade(b) ==
    LET pin == Pin(b[1], b[2])
    IN  /\ pin \in Range(SL) /\ pin \in Range(TL)
        /\ label_id(SL, pin) >= Cardinality(EdgeLabels(S))
        /\ label_id(TL, pin) >= Cardinality(EdgeLabels(T))
        /\ pin \in DictKeys(fixed_chains) /\ DictGet(fixed_chains, pin) = <<pin>>
        /\ b[1] \in Range(SL)
        /\ <<label_id(SL, b[1]), label_id(SL, pin)>> \in EdgesAfter(Sg, Len(S))
        /\ \A q \in Range(b[3]) :
              q \in Range(TL)
              /\ <<label_id(TL, pin), label_id(TL, q)>> \in EdgesAfter(Tg, Len(T))
\* the edges the setup added are those of the blobs in B and no other
OnlyPinEdges(B) ==
    /\ EdgesAfter(Sg, Len(S)) =
          {<<label_id(SL, b[1]), label_id(SL, Pin(b[1], b[2]))>> : b \in B}
    /\ Len(Sg) = Len(S) + Cardinality(B)
    /\ EdgesAfter(Tg, Len(T)) =
          UNION {{<<label_id(TL, Pin(b[1], b[2])), label_id(TL, q)>> : q \in Range(b[3])} : b \in B}
    /\ \A i \in 1 .. Len(S) : Sg[i] = <<label_id(SL, S[i][1]), label_id(SL, S[i][2])>>
    /\ \A i \in 1 .. Len(T) : Tg[i] = <<label_id(TL, T[i][1]), label_id(TL, T[i][2])>>

C9_SeedDeterministic ==
    /\ \A a \in rhist, b \in rhist : (a[1] = b[1] /\ a[2] = b[2]) => a[3] = b[3]
    /\ \A a \in rout, b \in rout : (a[1] = b[1] /\ a[2] = b[2]) => a[3] = b[3]
    /\ \A i \in DOMAIN rng : rseed[i] # NoSeed => <<rseed[i], rpos[i], rng[i]>> \in rhist

C9_Witness ==
    /\ nseeds = 3
    /\ rseed[1] = rseed[2] /\ rseed[1] # NoSeed
    /\ rpos = <<1, 1>>
    /\ rng[1] = rng[2]
    /\ \E a \in rout : a[1] = rseed[1] /\ a[2] = 1
    /\ \E a \in rout : a[1] # rseed[1]

\* some target node is in two of the chains of emb
Overlapping(emb) ==
    \E i \in DOMAIN emb, j \in DOMAIN emb : i # j /\ Range(emb[i][2]) \cap Range(emb[j][2]) # {}

\* C10: without embedded, the first component of quality_key(emb) is 2 exactly when
\* emb is empty, 1 exactly when some target node is in more than one chain and 0
\* exactly when emb is not empty and its chains are pairwise disjoint; and a key with
\* 0 is less than a key with 1, which is less than a key with 2.
C10_QualityState ==
    /\ \A i \in DOMAIN keys :
          ~flags[i] =>
              /\ keys[i][1] \in {0, 1, 2}
              /\ keys[i][1] = 2 <=> embs[i] = <<>>
              /\ keys[i][1] = 1 <=> Overlapping(embs[i])
              /\ keys[i][1] = 0 <=> (embs[i] # <<>> /\ ~Overlapping(embs[i]))
    /\ \A i \in DOMAIN keys, j \in DOMAIN keys :
          (~flags[i] /\ ~flags[j]) =>
              /\ (embs[i] # <<>> /\ ~Overlapping(embs[i]) /\ Overlapping(embs[j]))
                    => (key_less(keys[i], keys[j]) /\ ~key_less(keys[j], keys[i]))
              /\ (embs[i] # <<>> /\ embs[j] = <<>>)
                    => (key_less(keys[i], keys[j]) /\ ~key_less(keys[j], keys[i]))

C10_Witness ==
    /\ Len(keys) = 2 /\ flags = <<FALSE, FALSE>>
    /\ Overlapping(embs[2]) /\ keys[2][1] = 1
    /\ Len(embs[1]) = 2 /\ Len(embs[1][1][2]) = 2 /\ Len(embs[1][2][2]) = 1
    /\ keys[1][1] = 0
    /\ Len(embs[2][1][2]) = 1

\* the blobs whose pin label is a label of the user's source or target graph
Colliding == {b \in Blobs : Pin(b[1], b[2]) \in EdgeLabels(S) \cup EdgeLabels(T)}
PinError ==
    error \in {"ValueError: pin label in the source graph",
               "ValueError: pin label in the target graph"}

\* C11: when the pin label of a blob of suspend_chains is a label of the user's source
\* or target graph the call raises, the heuristic is never invoked, and nothing is made
\* for that blob: no fixed chain, no source edge to the pin, no target edge from it.
C11_PinCollisionRaises ==
    \A b \in Colliding :
          LET pin == Pin(b[1], b[2])
          IN  /\ ~invoked /\ ~Parsed
              /\ (pc \notin {"start", "options", "read_S", "read_T", "suspend"}) =>
                    (pc = "raised" /\ (PinError \/ error = check_names(params)))
              /\ pin \notin DictKeys(fixed_chains)
              /\ pin \in Range(SL) => pin \in EdgeLabels(S)
              /\ \A e \in EdgesAfter(Sg, Len(S)) :
                    pin \in Range(SL) => label_id(SL, pin) \notin {e[1], e[2]}
              /\ \A e \in EdgesAfter(Tg, Len(T)) :
                    pin \in Range(TL) => label_id(TL, pin) # e[1]

\* C11 witness: two blobs had their pins made before a third one met a target label
C11_Witness ==
    /\ pc = "raised"
    /\ error = "ValueError: pin label in the target graph"
    /\ pincount = 2
    /\ Len(Tg) = Len(T) + 2
    /\ Pin(U(2), 1) \in EdgeLabels(T)

\* C12: as long as nothing was taken out since the reset(), with m the number of keys
\* set since then, m successive pop_min calls return true with m different keys and
\* the call after them returns false.
C12_KeyOnce ==
    (started /\ Running(pq) /\ pops = <<>>) =>
        LET m  == Cardinality(inq)
            ps == PopSeq(pq, m + 1)
        IN  /\ Len(ps) = m + 1
            /\ \A i \in 1 .. m : ps[i].r /\ ps[i].fault = "none"
            /\ Cardinality({ps[i].key : i \in 1 .. m}) = m
            /\ ~ps[m + 1].r

\* the assertion a != root of decrease(a), which is reached when a->prev is not null
decrease_assertion(q, a) == ~empty(q.prev[a]) => a # q.root
\* the assertion !empty(b) of remove(a), b being a->prev
remove_assertion(q, a) == ~empty(q.prev[a])

\* C13: after every call, the root of a queue that is not empty has a null prev, every
\* other key in the queue has a prev that is neither null nor itself, a key that is
\* not in the queue has itself as prev, and so the assertion of decrease holds for
\* every key and that of remove for every key in the queue but the root.
C13_LinkInvariant ==
    (started /\ Running(pq)) =>
        /\ ~empty(pq.root) => pq.prev[pq.root] = NULL
        /\ \A k \in inq \ {pq.root} : pq.prev[k] \notin {NULL, k}
        /\ \A k \in Keys \ inq : pq.prev[k] = k
        /\ \A k \in Keys : decrease_assertion(pq, k)
        /\ \A k \in inq \ {pq.root} : remove_assertion(pq, k)

\* the keys in the queue: those reached from the root by desc and next links
RECURSIVE Linked(_, _)
Linked(q, R) ==
    LET R1 == R \cup (({q.desc[k] : k \in R} \cup {q.next[k] : k \in R}) \ {NULL})
    IN  IF R1 = R THEN R ELSE Linked(q, R1)
Members(q) == IF empty(q.root) THEN {} ELSE Linked(q, {q.root})

\* C14: a set_value(k, v), whatever v is to the value k holds, completes without
\* following a null link, leaves k with the value v and every other key with its
\* value, and leaves in the queue the keys that were in it together with k.
C14_SetValueTotal ==
    [][\A k \in Keys, v \in P :
         (started /\ Running(pq) /\ qcall' = Call("set_value", k, v) /\ ncalls' = ncalls + 1) =>
            /\ Running(pq')
            /\ pq'.val[k] = v
            /\ \A j \in Keys \ {k} : pq'.val[j] = pq.val[j]
            /\ Members(pq') = Members(pq) \cup {k}]_vars

\* C15: a key pop_min has returned is out of the queue with the value it was popped
\* with; check_decrease_value with a value not below that returns false and leaves it
\* out; and when popped keys are only offered such values and no key a value below the
\* last one popped, no key is popped twice and the popped values never decrease.
C15_PoppedStaysOut ==
    /\ []((started /\ Running(pq)) =>
            /\ (qcall.op = "pop_min" /\ qret.r) =>
                    (qret.key \notin Members(pq) /\ pq.val[qret.key] = qret.value)
            /\ \A i \in DOMAIN pops, j \in DOMAIN pops :
                    i < j => (pops[i][1] # pops[j][1] /\ pops[i][2] <= pops[j][2]))
    /\ [][\A k \in PoppedKeys, v \in P :
             (Running(pq) /\ qcall' = Call("check_decrease_value", k, v) /\ ncalls' = ncalls + 1) =>
                (~qret'.r /\ Members(pq') = Members(pq) /\ pq'.val[k] = pq.val[k])]_vars

\* C16: given the same calls after a reset(), a pairing_queue_fast_reset and a
\* pairing_queue return the same results and the same popped keys and values, fail
\* alike, and get_value(k) of the one is value(k) of the other for every key k.
C16_FastRefinesPlain ==
    started =>
        /\ qret0 = qret
        /\ fq.fault = pq.fault
        /\ (Running(pq) /\ Running(fq)) =>
                \A k \in Keys : get_value(fq, k) = pq.val[k]

\* C17: whatever now is, and when it overflows and wraps, also after it came back to
\* 0, a key not set since the last reset() has the maximum as get_value and is not
\* current, so that set_value and check_decrease_value insert it anew.
C17_NoStaleGeneration ==
    (started /\ Running(fq)) =>
        \A k \in Keys \ touched :
            /\ get_value(fq, k) = max_P
            /\ ~current(fq, k).r

\* C18: on an empty queue delete_min and pop_min return false and change neither the
\* queue nor the caller's key and value; on a queue that is not empty they return
\* true, take out the root, which holds the smallest value, and no other key, and
\* change no value; pop_min gives the caller the key and value of that root.
C18_DeleteMinExact ==
    [][(started /\ Running(pq) /\ qcall'.op \in {"delete_min", "pop_min"} /\ ncalls' = ncalls + 1) =>
          IF empty(pq.root)
          THEN /\ ~qret'.r
               /\ pq' = pq
               /\ qret'.key = qret.key /\ qret'.value = qret.value
          ELSE /\ qret'.r
               /\ Running(pq')
               /\ \A k \in Members(pq) : min_value(pq) <= pq.val[k]
               /\ Members(pq') = Members(pq) \ {min_key(pq)}
               /\ pq'.val = pq.val
               /\ qcall'.op = "pop_min" =>
                      (qret'.key = min_key(pq) /\ qret'.value = min_value(pq))]_vars

\* C19: when a call has returned or raised, the dict the caller passed as fixed_chains
\* holds the entries it held when the call was made (initial_chains, restrict_chains
\* and suspend_chains are only ever read).
C19_ArgumentsUnchanged ==
    (pc \in {"returned", "raised"} /\ "fixed_chains" \in DOMAIN params) =>
        caller_fixed = params["fixed_chains"]

\* the number of mappings find_embeddings was asked for: none when n is not positive
Asked == IF loop.asked > 0 THEN loop.asked ELSE 0

\* C20: find_embeddings never holds more than n mappings; an attempt adds its mapping
\* exactly when return_overlap is set or the mapping is not empty, and counts towards n
\* exactly when it adds one or force is 0; when it returns it has made n attempts if
\* force is 0 and holds n mappings if not; with force 0 it always returns, and with
\* any force it returns once n mappings are held.
C20_FindEmbeddings ==
    /\ [](Len(loop.embs) <= Asked)
    /\ [](pc = "done" =>
            IF loop.force = 0 THEN loop.attempts = Asked ELSE Len(loop.embs) = Asked)
    /\ [][(pc = "returned" /\ pc' = "parsed") =>
            /\ loop'.attempts = loop.attempts + 1
            /\ (Len(loop'.embs) = Len(loop.embs) + 1) <=>
                    (opts.return_overlap # 0 \/ DOMAIN rchain # {})
            /\ Len(loop'.embs) \in {Len(loop.embs), Len(loop.embs) + 1}
            /\ (loop'.n = loop.n - 1) <=>
                    (Len(loop'.embs) = Len(loop.embs) + 1 \/ loop.force = 0)]_vars
    /\ (loop.force = 0 => <>(pc \in {"done", "raised"}))
    /\ []((Len(loop.embs) = Asked) => <>(pc \in {"done", "raised"}))

\* C20 witness: with force set, two mappings were asked for and the call returned them
\* after three attempts, one of which gave an empty mapping
C20_Witness ==
    /\ pc = "done"
    /\ loop.force # 0
    /\ loop.asked = 2
    /\ loop.attempts = 3
    /\ Len(loop.embs) = 2
    /\ opts.return_overlap = 0

\* the chain lengths of emb, and a list of numbers in descending order
ChainLengths(emb) == [i \in DOMAIN emb |-> Len(emb[i][2])]
RECURSIVE Descending(_)
Descending(l) ==
    IF l = <<>>
    THEN <<>>
    ELSE LET i == CHOOSE x \in DOMAIN l : \A y \in DOMAIN l : l[y] <= l[x]
         IN  <<l[i]>> \o Descending([j \in 1 .. (Len(l) - 1) |-> IF j < i THEN l[j] ELSE l[j + 1]])
\* a proper embedding: it has chains, none is empty and no two share a target node
Proper(emb) ==
    /\ emb # <<>>
    /\ \A i \in DOMAIN emb : emb[i][2] # <<>>
    /\ ~Overlapping(emb)
\* h is the list of value, count pairs of the values of sizes other than 0, from the
\* largest value to the smallest
IsHistogram(h, sizes) ==
    /\ Len(h) = 2 * Cardinality(Range(sizes) \ {0})
    /\ \A p \in 1 .. (Len(h) \div 2) :
          /\ h[2 * p - 1] \in Range(sizes) \ {0}
          /\ h[2 * p] = Cardinality({i \in DOMAIN sizes : sizes[i] = h[2 * p - 1]})
          /\ p > 1 => h[2 * p - 1] < h[2 * p - 3]

\* C21: the third component of quality_key(emb) is the list of length, count pairs of
\* the chain lengths of emb other than 0, from the longest to the shortest, each count
\* being the number of chains of that length; and of two proper embeddings the one
\* whose chain lengths, in descending order, come first lexicographically has the
\* smaller key.
C21_HistogramOrder ==
    /\ \A i \in DOMAIN keys :
          embs[i] # <<>> => IsHistogram(keys[i][3], ChainLengths(embs[i]))
    /\ \A i \in DOMAIN keys, j \in DOMAIN keys :
          (/\ Proper(embs[i]) /\ Proper(embs[j])
           /\ list_less(Descending(ChainLengths(embs[i])), Descending(ChainLengths(embs[j])))) =>
              (key_less(keys[i], keys[j]) /\ ~key_less(keys[j], keys[i]))

\* C21 witness: the longest chains are as long, the first embedding has fewer of them
C21_Witness ==
    /\ Len(keys) = 2
    /\ ChainLengths(embs[1]) = <<1, 2, 1>>
    /\ ChainLengths(embs[2]) = <<2, 1, 2>>
    /\ keys[1][3] = <<2, 1, 1, 2>>
    /\ keys[2][3] = <<2, 2, 1, 1>>
    /\ key_less(keys[1], keys[2])

\* C22: a pairing_queue on which reset() was never called is, before its first call,
\* empty with the maximum as value(k) of every key; and set_value(k, v), or a
\* check_decrease_value(k, v) with v below the maximum, as its first call completes
\* without following a null link and leaves k in the queue with the value v.
C22_ConstructedLikeReset ==
    /\ []((~started /\ ncalls = 0) =>
            (empty(pq.root) /\ \A k \in Keys : pq.val[k] = max_P))
    /\ [][\A k \in Keys, v \in P :
             (/\ ~started /\ ncalls = 0 /\ ncalls' = 1
              /\ \/ qcall' = Call("set_value", k, v)
                 \/ (qcall' = Call("check_decrease_value", k, v) /\ v < max_P)) =>
                (Running(pq') /\ Members(pq') = {k} /\ pq'.val[k] = v)]_vars

====
